---- MODULE Spec2Model ----
(***************************************************************************)
(* Model of src/main.py: the bulk address classifier.                      *)
(*                                                                         *)
(* main() loads the first column of the input CSV, partitions it with      *)
(* create_batches, opens the output CSV and gathers one                    *)
(* process_address_batch_with_backoff task per batch.  The tasks are       *)
(* cooperative asyncio tasks on one event loop; a task runs atomically     *)
(* from one await that suspends it to the next one.  The suspension        *)
(* points are: waiting for the semaphore, the classifier call in a worker  *)
(* thread, every writer.writerow, and the backoff sleep.                   *)
(*                                                                         *)
(* Addresses are sequences of characters, confidences are in hundredths    *)
(* (0.7 is 70), delays are integers (the jitter is drawn in JitterDen-ths).*)
(***************************************************************************)
EXTENDS Integers, Sequences, FiniteSets, TLC

\* ---------------------------------------------------------------- bounds
MaxRows == 2            \* data rows of the input file
MaxConcurrency == 2     \* largest --concurrency tried
MaxBatchSize == 2       \* largest --batch-size tried
MaxItems == 4           \* longest list handed to create_batches in SpecBatches
MaxSize == 3            \* largest size handed to create_batches in SpecBatches
MaxGateFailures == 1    \* classifier failures in a run of SpecGate

\* ------------------------------------------------------ program constants
initial_delay == 1
exponential_base == 2
max_retries == 10
ConfidenceThreshold == 70       \* 0.7, in hundredths
JitterDen == 2                  \* random.random() is drawn as j / JitterDen

fieldnames == <<"address", "shortForm", "longForm", "confidence", "error">>

None == "None"

\* ------------------------------------------------------------- input sets
SP == " "

\* The cells tried as addresses: empty, whitespace only, two non-blank ones
\* (one of them with a leading space, which strip() removes for the test only).
AddrValues == { <<>>, <<SP>>, <<"x">>, <<SP, "y">> }

\* A row of the input file: an empty row, or a row with one cell.
RowValues == { <<>> } \cup { <<a>> : a \in AddrValues }

SeqsUpTo(S, n) == UNION { [1..k -> S] : k \in 0..n }

\* The failure kinds of the classifier call; every one is a Python Exception.
RateLimited == "RateLimited"
OtherFailureKinds == { "ServiceUnavailable", "TransportError", "MalformedResponse" }
FailureKinds == { RateLimited } \cup OtherFailureKinds

\* the error texts that start with "Batch failed:"
BatchFailedError(kind) ==
    CASE kind = "ServiceUnavailable" -> "Batch failed: ServiceUnavailable"
      [] kind = "TransportError" -> "Batch failed: TransportError"
      [] kind = "MalformedResponse" -> "Batch failed: MalformedResponse"
      [] OTHER -> "Batch failed: RateLimited"

BatchFailedErrors == { BatchFailedError(k) : k \in FailureKinds }

\* The items a response may carry: every key may be absent.
Items ==
    { [shortForm |-> "US", longForm |-> "United States", confidence |-> 70],
      [shortForm |-> "US", longForm |-> "United States", confidence |-> 69],
      [shortForm |-> "UNKNOWN", longForm |-> "UNKNOWN", confidence |-> 100],
      [shortForm |-> "US", longForm |-> "United States"],
      [shortForm |-> "US", confidence |-> 100],
      [confidence |-> 100] }

\* The parsed JSON object of a response for n addresses: the "results" key may
\* be missing, and the list may be shorter than the addresses.
Responses(n) ==
    { <<>> } \cup { [results |-> r] : r \in SeqsUpTo(Items, n) }

\* The jitter numerators the run specification draws (random.random() = 0).
RunJitters == { 0 }

\* ------------------------------------------------------------------ state
VARIABLES
    input_exists,     \* os.path.isfile(input_csv)
    infile,           \* the rows of the input file after the header
    batch_size,       \* --batch-size
    concurrency,      \* --concurrency
    mainpc,           \* where main() is
    addresses,        \* main: addresses
    address_batches,  \* main: address_batches
    sem,              \* semaphore._value
    outfile,          \* the output file: "untouched", "open" or "closed"
    header,           \* the header row of the output file
    rows,             \* the data rows of the output file, in write order
    pc,               \* per task: where the task is
    num_retries,      \* per task: num_retries
    delay,            \* per task: delay
    e,                \* per task: the exception bound in the except clause
    results,          \* per task: results
    i,                \* per task: the number of addresses the loop has written
    calls,            \* per task: invocations of the classifier (the stub's count)
    written           \* per task: rows the writer accepted from the task

vars == << input_exists, infile, batch_size, concurrency, mainpc, addresses,
           address_batches, sem, outfile, header, rows, pc, num_retries,
           delay, e, results, i, calls, written >>

mainVars == << input_exists, infile, batch_size, concurrency >>
taskVars == << pc, num_retries, delay, e, results, i, calls, written >>

\* ------------------------------------------------------- python helpers
\* dict.get(key, default)
Get(d, key, default) == IF key \in DOMAIN d THEN d[key] ELSE default

\* str.strip(): drop leading and trailing whitespace
RECURSIVE lstrip(_)
lstrip(s) == IF s # <<>> /\ Head(s) = SP THEN lstrip(Tail(s)) ELSE s

RECURSIVE rstrip(_)
rstrip(s) ==
    IF s # <<>> /\ s[Len(s)] = SP THEN rstrip(SubSeq(s, 1, Len(s) - 1)) ELSE s

strip(s) == rstrip(lstrip(s))

\* `addr and addr.strip()` as a truth value
IsValid(addr) == addr # <<>> /\ strip(addr) # <<>>

\* [x for x in s if P(x)]
RECURSIVE FilterValid(_)
FilterValid(s) ==
    IF s = <<>> THEN <<>>
    ELSE IF IsValid(Head(s)) THEN <<Head(s)>> \o FilterValid(Tail(s))
         ELSE FilterValid(Tail(s))

\* range(start, stop, step) for step # 0, as the list of its values
RECURSIVE range(_, _, _)
range(start, stop, step) ==
    IF step > 0
    THEN IF start < stop THEN <<start>> \o range(start + step, stop, step) ELSE <<>>
    ELSE IF start > stop THEN <<start>> \o range(start + step, stop, step) ELSE <<>>

\* items[lo:hi] for 0 <= lo, with Python's clipping of hi (0-based, hi excluded)
Slice(items, lo, hi) ==
    LET top == IF hi > Len(items) THEN Len(items) ELSE hi
    IN  IF lo >= top THEN <<>> ELSE SubSeq(items, lo + 1, top)

\* create_batches with the slice one element too long: items[i:i + size + 1]
create_batches_LongSlice(items, size) ==
    LET starts == range(0, Len(items), size)
    IN  [k \in 1..Len(starts) |-> Slice(items, starts[k], starts[k] + size + 1)]

\* create_batches(items, size) for size # 0; size = 0 raises in range()
create_batches(items, size) ==
    LET starts == range(0, Len(items), size)
    IN  [k \in 1..Len(starts) |-> Slice(items, starts[k], starts[k] + size)]

\* the loader: the first cell of every non-empty row
RECURSIVE load(_)
load(rs) ==
    IF rs = <<>> THEN <<>>
    ELSE IF Head(rs) # <<>> THEN <<Head(rs)[1]>> \o load(Tail(rs))
         ELSE load(Tail(rs))

\* dict.update(): the keys of b win
update(a, b) ==
    [k \in DOMAIN a \cup DOMAIN b |-> IF k \in DOMAIN b THEN b[k] ELSE a[k]]

\* str() of a confidence, as the csv writer formats a float
ConfStr(c) ==
    CASE c = 0 -> "0.0"
      [] c = 69 -> "0.69"
      [] c = 70 -> "0.7"
      [] c = 100 -> "1.0"

\* The cell DictWriter writes for a key: the value, or "" (restval) if absent.
Cell(d, key) ==
    IF key \notin DOMAIN d THEN ""
    ELSE IF key = "confidence" THEN ConfStr(d[key]) ELSE d[key]

\* AsyncDictWriter.writerow(d): the cells in the order of fieldnames
csv_row(d) == [k \in 1..Len(fieldnames) |-> Cell(d, fieldnames[k])]

\* the cell of a written row under a column name
Col(row, name) == row[CHOOSE k \in 1..Len(fieldnames) : fieldnames[k] = name]

\* the test of line 267 with `>` for `>=`
Accepted_Strict(res, n) ==
    /\ n < Len(res)
    /\ Get(res[n + 1], "confidence", 0) > ConfidenceThreshold
    /\ Get(res[n + 1], "shortForm", None) # "UNKNOWN"

\* the test of line 267, for the 0-based position n
Accepted(res, n) ==
    /\ n < Len(res)
    /\ Get(res[n + 1], "confidence", 0) >= ConfidenceThreshold
    /\ Get(res[n + 1], "shortForm", None) # "UNKNOWN"

LowConfidenceError == "Confidence too low or unknown"

\* every address of the batch is judged by the first result of the response
result_line_FirstResult(address, res, n) ==
    IF Accepted(res, 0)
    THEN update([address |-> address], res[1])
    ELSE update([address |-> address], [error |-> LowConfidenceError])

\* result_line as built by lines 266-270 for the address at 0-based position n
result_line(address, res, n) ==
    IF Accepted(res, n)
    THEN update([address |-> address], res[n + 1])
    ELSE update([address |-> address], [error |-> LowConfidenceError])

\* ------------------------------------------------------------ the tasks
\* the tasks main has created, one per batch (line 325)
Tasks == DOMAIN pc

batch(b) == address_batches[b]

valid_addresses(b) == FilterValid(batch(b))

\* The tasks run while the event loop runs main: during gather, and while
\* the exception of a failed task unwinds main.
LoopRuns == mainpc \in { "gather", "unwinding" }

\* `delay *= exponential_base * random.random()`: the `1 +` is left out
NextDelay_JitterOnly(d, j) == (d * exponential_base * j) \div JitterDen

\* `delay *= exponential_base * (1 + random.random())` with random() = j / JitterDen
NextDelay(d, j) == (d * exponential_base * (JitterDen + j)) \div JitterDen

\* the except clause with `>=` for `>` in the test of the retry ceiling
Except_EarlyCeiling(b, exc, j) ==
    /\ num_retries' = [num_retries EXCEPT ![b] = @ + 1]
    /\ e' = [e EXCEPT ![b] = exc]
    /\ IF num_retries[b] + 1 >= max_retries
       THEN /\ pc' = [pc EXCEPT ![b] = "failed"]
            /\ delay' = delay
       ELSE /\ pc' = [pc EXCEPT ![b] = "sleeping"]
            /\ delay' = [delay EXCEPT ![b] = NextDelay(@, j)]

\* The except clause (lines 274-282) of task b for the exception exc; the
\* semaphore slot was released when the exception left the `async with`.
Except(b, exc, j) ==
    /\ num_retries' = [num_retries EXCEPT ![b] = @ + 1]
    /\ e' = [e EXCEPT ![b] = exc]
    /\ IF num_retries[b] + 1 > max_retries
       THEN /\ pc' = [pc EXCEPT ![b] = "failed"]
            /\ delay' = delay
       ELSE /\ pc' = [pc EXCEPT ![b] = "sleeping"]
            /\ delay' = [delay EXCEPT ![b] = NextDelay(@, j)]

\* the blank-only return leaves the gated section without giving the slot back
AcquireBlank_KeepsSlot(b) ==
    /\ LoopRuns
    /\ pc[b] \in { "waiting", "sleeping" }
    /\ sem > 0
    /\ valid_addresses(b) = <<>>
    /\ sem' = sem - 1
    /\ pc' = [pc EXCEPT ![b] = "done"]
    /\ e' = [e EXCEPT ![b] = None]
    /\ UNCHANGED << mainVars, mainpc, addresses, address_batches, outfile,
                    header, rows, num_retries, delay, results, i, calls, written >>

\* Lines 255-258: the task gets a slot, finds no valid address, and returns.
\* (The slot is taken and given back without an await in between.)
AcquireBlank(b) ==
    /\ LoopRuns
    /\ pc[b] \in { "waiting", "sleeping" }
    /\ sem > 0
    /\ valid_addresses(b) = <<>>
    /\ pc' = [pc EXCEPT ![b] = "done"]
    /\ e' = [e EXCEPT ![b] = None]
    /\ UNCHANGED << mainVars, mainpc, addresses, address_batches, sem, outfile,
                    header, rows, num_retries, delay, results, i, calls, written >>

\* the classifier call started without waiting for a slot
AcquireCall_NoGate(b) ==
    /\ LoopRuns
    /\ pc[b] \in { "waiting", "sleeping" }
    /\ valid_addresses(b) # <<>>
    /\ sem' = sem - 1
    /\ pc' = [pc EXCEPT ![b] = "calling"]
    /\ e' = [e EXCEPT ![b] = None]
    /\ calls' = [calls EXCEPT ![b] = @ + 1]
    /\ UNCHANGED << mainVars, mainpc, addresses, address_batches, outfile,
                    header, rows, num_retries, delay, results, i, written >>

\* Lines 255-262: the task gets a slot and starts the classifier call.
AcquireCall(b) ==
    /\ LoopRuns
    /\ pc[b] \in { "waiting", "sleeping" }
    /\ sem > 0
    /\ valid_addresses(b) # <<>>
    /\ sem' = sem - 1
    /\ pc' = [pc EXCEPT ![b] = "calling"]
    /\ e' = [e EXCEPT ![b] = None]
    /\ calls' = [calls EXCEPT ![b] = @ + 1]
    /\ UNCHANGED << mainVars, mainpc, addresses, address_batches, outfile,
                    header, rows, num_retries, delay, results, i, written >>

\* the slot is given back as soon as the classifier call has returned
ClassifierReturns_ReleasesSlot(b, resp) ==
    /\ LoopRuns
    /\ pc[b] = "calling"
    /\ sem' = sem + 1
    /\ results' = [results EXCEPT ![b] = Get(resp, "results", <<>>)]
    /\ i' = [i EXCEPT ![b] = 0]
    /\ pc' = [pc EXCEPT ![b] = "writing"]
    /\ UNCHANGED << mainVars, mainpc, addresses, address_batches, outfile,
                    header, rows, num_retries, delay, e, calls, written >>

\* Lines 260-265: the call returns a parsed response; the loop starts.
ClassifierReturns(b, resp) ==
    /\ LoopRuns
    /\ pc[b] = "calling"
    /\ results' = [results EXCEPT ![b] = Get(resp, "results", <<>>)]
    /\ i' = [i EXCEPT ![b] = 0]
    /\ pc' = [pc EXCEPT ![b] = "writing"]
    /\ UNCHANGED << mainVars, mainpc, addresses, address_batches, sem, outfile,
                    header, rows, num_retries, delay, e, calls, written >>

\* the call raises, and a failure other than a rate limit is not retried:
\* an error row is written for every address of the batch, which returns
ClassifierRaises_Degrade(b, kind, j) ==
    /\ LoopRuns
    /\ pc[b] = "calling"
    /\ sem' = sem + 1
    /\ IF kind = "RateLimited"
       THEN /\ Except(b, kind, j)
            /\ UNCHANGED << rows, written >>
       ELSE /\ rows' = rows \o [k \in 1..Len(address_batches[b]) |->
                        csv_row([address |-> address_batches[b][k],
                                 error |-> BatchFailedError(kind)])]
            /\ written' = [written EXCEPT ![b] = @ + Len(address_batches[b])]
            /\ pc' = [pc EXCEPT ![b] = "done"]
            /\ e' = [e EXCEPT ![b] = kind]
            /\ UNCHANGED << num_retries, delay >>
    /\ UNCHANGED << mainVars, mainpc, addresses, address_batches, outfile,
                    header, results, i, calls >>

\* the call raises and the task sleeps inside the gated section
ClassifierRaises_KeepsSlot(b, kind, j) ==
    /\ LoopRuns
    /\ pc[b] = "calling"
    /\ sem' = sem
    /\ Except(b, kind, j)
    /\ UNCHANGED << mainVars, mainpc, addresses, address_batches, outfile,
                    header, rows, results, i, calls, written >>

\* Lines 260-262, 274-282: the call raises.
ClassifierRaises(b, kind, j) ==
    /\ LoopRuns
    /\ pc[b] = "calling"
    /\ sem' = sem + 1
    /\ Except(b, kind, j)
    /\ UNCHANGED << mainVars, mainpc, addresses, address_batches, outfile,
                    header, rows, results, i, calls, written >>

\* the rows of a batch are written from its last valid address to its first
WriteRow_Reversed(b) ==
    /\ LoopRuns
    /\ pc[b] = "writing"
    /\ outfile = "open"
    /\ LET valid == valid_addresses(b)
           line == result_line(valid[Len(valid) - i[b]], results[b],
                               Len(valid) - i[b] - 1)
       IN  /\ rows' = Append(rows, csv_row(line))
           /\ written' = [written EXCEPT ![b] = @ + 1]
           /\ i' = [i EXCEPT ![b] = @ + 1]
           /\ IF i[b] + 1 = Len(valid)
              THEN /\ pc' = [pc EXCEPT ![b] = "done"]
                   /\ sem' = sem + 1
              ELSE /\ pc' = pc
                   /\ sem' = sem
    /\ UNCHANGED << mainVars, mainpc, addresses, address_batches, outfile,
                    header, num_retries, delay, e, results, calls >>

\* Lines 265-272: one row is written; after the last one the task returns
\* and the slot is released.
WriteRow(b) ==
    /\ LoopRuns
    /\ pc[b] = "writing"
    /\ outfile = "open"
    /\ LET valid == valid_addresses(b)
           line == result_line(valid[i[b] + 1], results[b], i[b])
       IN  /\ rows' = Append(rows, csv_row(line))
           /\ written' = [written EXCEPT ![b] = @ + 1]
           /\ i' = [i EXCEPT ![b] = @ + 1]
           /\ IF i[b] + 1 = Len(valid)
              THEN /\ pc' = [pc EXCEPT ![b] = "done"]
                   /\ sem' = sem + 1
              ELSE /\ pc' = pc
                   /\ sem' = sem
    /\ UNCHANGED << mainVars, mainpc, addresses, address_batches, outfile,
                    header, num_retries, delay, e, results, calls >>

\* Lines 271, 274-282: the output file is closed already, so the write raises
\* ValueError, which the except clause treats like any other exception.
WriteRowRaises(b, j) ==
    /\ LoopRuns
    /\ pc[b] = "writing"
    /\ outfile = "closed"
    /\ sem' = sem + 1
    /\ Except(b, "ValueError", j)
    /\ UNCHANGED << mainVars, mainpc, addresses, address_batches, outfile,
                    header, rows, results, i, calls, written >>

\* -------------------------------------------------------------- main()
\* Lines 298-300: the input path is no file; main prints the error and returns.
MainInputMissing ==
    /\ mainpc = "start"
    /\ ~input_exists
    /\ mainpc' = "not_found"
    /\ UNCHANGED << mainVars, addresses, address_batches, sem, outfile, header,
                    rows, taskVars >>

\* Lines 302-312: no address was loaded; main prints the notice and returns.
MainNoAddresses ==
    /\ mainpc = "start"
    /\ input_exists
    /\ load(infile) = <<>>
    /\ addresses' = load(infile)
    /\ mainpc' = "no_addresses"
    /\ UNCHANGED << mainVars, address_batches, sem, outfile, header, rows,
                    taskVars >>

\* Line 316: range() raises ValueError for a step of 0 when the generator of
\* create_batches is first advanced; the exception leaves main.
MainCreateBatchesRaises ==
    /\ mainpc = "start"
    /\ input_exists
    /\ load(infile) # <<>>
    /\ batch_size = 0
    /\ addresses' = load(infile)
    /\ mainpc' = "config_error"
    /\ UNCHANGED << mainVars, address_batches, sem, outfile, header, rows,
                    taskVars >>

\* Line 318: asyncio.Semaphore raises ValueError for a negative value; the
\* exception leaves main.
MainSemaphoreRaises ==
    /\ mainpc = "start"
    /\ input_exists
    /\ load(infile) # <<>>
    /\ batch_size # 0
    /\ concurrency < 0
    /\ addresses' = load(infile)
    /\ address_batches' = create_batches(load(infile), batch_size)
    /\ mainpc' = "config_error"
    /\ UNCHANGED << mainVars, sem, outfile, header, rows, taskVars >>

\* Lines 302-327: load, partition, make the semaphore, open the output file,
\* write the header, create one task per batch and await gather.
MainDispatch ==
    /\ mainpc = "start"
    /\ input_exists
    /\ load(infile) # <<>>
    /\ batch_size # 0
    /\ concurrency >= 0
    /\ addresses' = load(infile)
    /\ address_batches' = create_batches(load(infile), batch_size)
    /\ sem' = concurrency
    /\ outfile' = "open"
    /\ header' = fieldnames
    /\ rows' = <<>>
    /\ LET T == 1..Len(address_batches')
       IN  /\ pc' = [b \in T |-> "waiting"]
           /\ num_retries' = [b \in T |-> 0]
           /\ delay' = [b \in T |-> initial_delay]
           /\ e' = [b \in T |-> None]
           /\ results' = [b \in T |-> <<>>]
           /\ i' = [b \in T |-> 0]
           /\ calls' = [b \in T |-> 0]
           /\ written' = [b \in T |-> 0]
    /\ mainpc' = "gather"
    /\ UNCHANGED mainVars

\* Lines 320-329: every task has returned; gather returns, the output file is
\* closed and main prints "Processing complete".
MainGatherReturns ==
    /\ mainpc = "gather"
    /\ \A b \in Tasks : pc[b] = "done"
    /\ outfile' = "closed"
    /\ mainpc' = "complete"
    /\ UNCHANGED << mainVars, addresses, address_batches, sem, header, rows,
                    taskVars >>

\* Lines 320-327: a task has raised; gather re-raises its exception as soon
\* as main is scheduled, whatever the other tasks are doing, and the
\* exception leaves the `async with` block, which closes the output file.
MainGatherRaises ==
    /\ mainpc = "gather"
    /\ \E b \in Tasks : pc[b] = "failed"
    /\ outfile' = "closed"
    /\ mainpc' = "unwinding"
    /\ UNCHANGED << mainVars, addresses, address_batches, sem, header, rows,
                    taskVars >>

\* A task that holds a semaphore slot (it is inside the `async with`).
HoldsSlot(b) == pc[b] \in { "calling", "writing" }

\* Line 344: the exception leaves main; asyncio.run cancels every task that
\* has not finished (CancelledError is no Exception, so the except clause
\* does not catch it; the `async with` gives the slots back) and re-raises.
MainAborts ==
    /\ mainpc = "unwinding"
    /\ pc' = [b \in Tasks |->
                IF pc[b] \in { "done", "failed" } THEN pc[b] ELSE "cancelled"]
    /\ sem' = sem + Cardinality({ b \in Tasks : HoldsSlot(b) })
    /\ mainpc' = "raised"
    /\ UNCHANGED << mainVars, addresses, address_batches, outfile, header, rows,
                    num_retries, delay, e, results, i, calls, written >>

\* ------------------------------------------------------- specifications
Concurrencies == -1..MaxConcurrency
BatchSizes == -1..MaxBatchSize

Init ==
    /\ input_exists \in BOOLEAN
    /\ infile \in (IF input_exists THEN SeqsUpTo(RowValues, MaxRows) ELSE { <<>> })
    /\ batch_size \in BatchSizes
    /\ concurrency \in Concurrencies
    /\ mainpc = "start"
    /\ addresses = <<>>
    /\ address_batches = <<>>
    /\ sem = 0
    /\ outfile = "untouched"
    /\ header = <<>>
    /\ rows = <<>>
    /\ pc = <<>>
    /\ num_retries = <<>>
    /\ delay = <<>>
    /\ e = <<>>
    /\ results = <<>>
    /\ i = <<>>
    /\ calls = <<>>
    /\ written = <<>>

Next ==
    \/ MainInputMissing
    \/ MainNoAddresses
    \/ MainCreateBatchesRaises
    \/ MainSemaphoreRaises
    \/ MainDispatch
    \/ MainGatherReturns
    \/ MainGatherRaises
    \/ MainAborts
    \/ \E b \in Tasks : AcquireBlank(b)
    \/ \E b \in Tasks : AcquireCall(b)
    \/ \E b \in Tasks : \E resp \in Responses(Len(valid_addresses(b))) :
          ClassifierReturns(b, resp)
    \/ \E b \in Tasks : \E kind \in FailureKinds : \E j \in RunJitters :
          ClassifierRaises(b, kind, j)
    \/ \E b \in Tasks : WriteRow(b)
    \/ \E b \in Tasks : \E j \in RunJitters : WriteRowRaises(b, j)

Spec == Init /\ [][Next]_vars

\* A run of one batch: the batch size is the largest number of rows, so that
\* main creates at most one task; the classifier is as free as in Spec.
InitBatch ==
    /\ input_exists = TRUE
    /\ infile \in SeqsUpTo(RowValues, MaxRows)
    /\ batch_size = MaxRows
    /\ concurrency = 1
    /\ mainpc = "start"
    /\ addresses = <<>>
    /\ address_batches = <<>>
    /\ sem = 0
    /\ outfile = "untouched"
    /\ header = <<>>
    /\ rows = <<>>
    /\ pc = <<>>
    /\ num_retries = <<>>
    /\ delay = <<>>
    /\ e = <<>>
    /\ results = <<>>
    /\ i = <<>>
    /\ calls = <<>>
    /\ written = <<>>

NextBatch ==
    \/ MainNoAddresses
    \/ MainDispatch
    \/ MainGatherReturns
    \/ MainGatherRaises
    \/ MainAborts
    \/ \E b \in Tasks : AcquireBlank(b)
    \/ \E b \in Tasks : AcquireCall(b)
    \/ \E b \in Tasks : \E resp \in Responses(Len(valid_addresses(b))) :
          ClassifierReturns(b, resp)
    \/ \E b \in Tasks : \E kind \in FailureKinds : \E j \in RunJitters :
          ClassifierRaises(b, kind, j)
    \/ \E b \in Tasks : WriteRow(b)

SpecBatch == InitBatch /\ [][NextBatch]_vars

\* A run of several batches with a classifier that fails at most
\* MaxGateFailures times in the whole run (always with a rate limit) and
\* otherwise answers with a full list of results or with none.
RECURSIVE SumTo(_, _)
SumTo(f, n) == IF n = 0 THEN 0 ELSE f[n] + SumTo(f, n - 1)

TotalRetries == SumTo(num_retries, Len(num_retries))

GateItem == [shortForm |-> "US", longForm |-> "United States", confidence |-> 70]

GateResponses(n) == { [results |-> <<>>], [results |-> [k \in 1..n |-> GateItem]] }

InitGate ==
    /\ input_exists = TRUE
    /\ infile \in SeqsUpTo(RowValues, MaxRows)
    /\ batch_size \in 1..MaxBatchSize
    /\ concurrency \in 1..MaxConcurrency
    /\ mainpc = "start"
    /\ addresses = <<>>
    /\ address_batches = <<>>
    /\ sem = 0
    /\ outfile = "untouched"
    /\ header = <<>>
    /\ rows = <<>>
    /\ pc = <<>>
    /\ num_retries = <<>>
    /\ delay = <<>>
    /\ e = <<>>
    /\ results = <<>>
    /\ i = <<>>
    /\ calls = <<>>
    /\ written = <<>>

NextGate ==
    \/ MainNoAddresses
    \/ MainDispatch
    \/ MainGatherReturns
    \/ \E b \in Tasks : AcquireBlank(b)
    \/ \E b \in Tasks : AcquireCall(b)
    \/ \E b \in Tasks : \E resp \in GateResponses(Len(valid_addresses(b))) :
          ClassifierReturns(b, resp)
    \/ \E b \in Tasks : \E j \in RunJitters :
          TotalRetries < MaxGateFailures /\ ClassifierRaises(b, RateLimited, j)
    \/ \E b \in Tasks : WriteRow(b)

SpecGate == InitGate /\ [][NextGate]_vars

\* create_batches on its own, over longer lists and more sizes.
Partition ==
    /\ mainpc = "partition"
    /\ batch_size # 0
    /\ address_batches' = create_batches(addresses, batch_size)
    /\ mainpc' = "partitioned"
    /\ UNCHANGED << mainVars, addresses, sem, outfile, header, rows, taskVars >>

PartitionRaises ==
    /\ mainpc = "partition"
    /\ batch_size = 0
    /\ mainpc' = "range_error"
    /\ UNCHANGED << mainVars, addresses, address_batches, sem, outfile, header,
                    rows, taskVars >>

InitBatches ==
    /\ input_exists = TRUE
    /\ infile = <<>>
    /\ batch_size \in -1..MaxSize
    /\ concurrency = 1
    /\ mainpc = "partition"
    /\ addresses \in SeqsUpTo({ <<"x">>, <<SP, "y">> }, MaxItems)
    /\ address_batches = <<>>
    /\ sem = 0
    /\ outfile = "untouched"
    /\ header = <<>>
    /\ rows = <<>>
    /\ pc = <<>>
    /\ num_retries = <<>>
    /\ delay = <<>>
    /\ e = <<>>
    /\ results = <<>>
    /\ i = <<>>
    /\ calls = <<>>
    /\ written = <<>>

NextBatches == Partition \/ PartitionRaises

SpecBatches == InitBatches /\ [][NextBatches]_vars

\* ------------------------------------------------- vocabulary of the claims
\* number of positions of seq that hold x
Count(seq, x) == Cardinality({ k \in DOMAIN seq : seq[k] = x })

\* the address column of the output, in write order
RowAddresses == [k \in DOMAIN rows |-> Col(rows[k], "address")]

\* main has ended: it returned or its exception left it
Ended == mainpc \in { "not_found", "no_addresses", "config_error", "complete", "raised" }

\* a task has settled by success or by failure
Settled(b) == pc[b] \in { "done", "failed" }

\* the batches with an outstanding classifier call
InFlight == { b \in Tasks : pc[b] = "calling" }

BatchFailedRows == { k \in DOMAIN rows : Col(rows[k], "error") \in BatchFailedErrors }

RECURSIVE Concat(_)
Concat(ss) == IF ss = <<>> THEN <<>> ELSE Head(ss) \o Concat(Tail(ss))

\* ---------------------------------------------------------------- claims

\* C1 (as stated): once a run with batch size >= 1 and concurrency >= 1 has
\* ended, the output holds exactly one record for every non-blank input
\* address and none for a blank one.
C1_OneRecordPerNonBlankAddress ==
    (Ended /\ input_exists /\ batch_size >= 1 /\ concurrency >= 1) =>
        /\ Len(rows) = Len(FilterValid(load(infile)))
        /\ \A a \in AddrValues :
              Count(RowAddresses, a) = Count(FilterValid(load(infile)), a)

\* C2 (as stated): a batch whose classifier has failed 10 times or more never
\* reaches the successful call; it succeeds only after fewer than 10 failures.
C2_Original_TenFailuresAreFatal ==
    \A b \in Tasks :
        pc[b] \in { "writing", "done" } /\ valid_addresses(b) # <<>>
            => calls[b] - 1 < 10

\* C2 (amended): every attempt is one classifier call and every failed
\* attempt one retry, so a batch that reaches the successful call after K
\* failures has made exactly K retries, with K <= 10; the batch raises exactly
\* when the 11th call fails, and then no 12th call is made.
C2_RetryCeiling ==
    \A b \in Tasks :
        /\ pc[b] \in { "calling", "writing" } =>
              num_retries[b] <= 10 /\ calls[b] = num_retries[b] + 1
        /\ pc[b] = "done" /\ valid_addresses(b) # <<>> =>
              /\ num_retries[b] <= 10
              /\ calls[b] = num_retries[b] + 1
              /\ written[b] = Len(valid_addresses(b))
        /\ pc[b] = "sleeping" => num_retries[b] <= 10 /\ calls[b] = num_retries[b]
        /\ pc[b] = "failed" => num_retries[b] = 11 /\ calls[b] = 11

\* C2 witness: a batch has written its records after exactly 10 retries.
C2_Witness ==
    \E b \in Tasks :
        /\ pc[b] = "done"
        /\ num_retries[b] = 10
        /\ calls[b] = 11
        /\ written[b] = Len(valid_addresses(b))
        /\ written[b] > 0

C4_SuccessFieldsXorError ==
    \A k \in DOMAIN rows :
        LET row == rows[k]
            success == /\ Col(row, "shortForm") # ""
                       /\ Col(row, "longForm") # ""
                       /\ Col(row, "confidence") # ""
            failure == Col(row, "error") # ""
        IN  /\ Col(row, "address") # <<>>
            /\ success \/ failure
            /\ ~(success /\ failure)

\* C5: with a concurrency limit N >= 1, at most N batches have an
\* outstanding classifier call, in every reachable state.
C5_AtMostNInFlight ==
    concurrency >= 1 => Cardinality(InFlight) <= concurrency

\* C5 witness: N batches are in flight and another one waits for a slot.
C5_Witness ==
    /\ concurrency >= 1
    /\ Cardinality(InFlight) = concurrency
    /\ sem = 0
    /\ \E b \in Tasks : pc[b] \in { "waiting", "sleeping" }

\* C6 (as stated): a batch's fatal failure never cancels another batch; once
\* the run has ended every other batch has settled on its own and every
\* batch that was not the failing one has written its records.
C6_FailureContained ==
    \A b \in Tasks :
        valid_addresses(b) # <<>> =>
            /\ pc[b] # "cancelled"
            /\ (Ended /\ pc[b] # "failed") => written[b] = Len(valid_addresses(b))

\* C7: for size >= 1 the batches of create_batches concatenate to the
\* original list, every batch has between 1 and size elements, and only the
\* last one may have fewer than size.
C7_Partition ==
    (mainpc = "partitioned" /\ batch_size >= 1) =>
        /\ Concat(address_batches) = addresses
        /\ \A k \in DOMAIN address_batches :
              /\ Len(address_batches[k]) >= 1
              /\ Len(address_batches[k]) <= batch_size
              /\ k < Len(address_batches) => Len(address_batches[k]) = batch_size

\* C7 witness: a list was split into several batches, the last one short.
C7_Witness ==
    /\ mainpc = "partitioned"
    /\ batch_size >= 2
    /\ Len(address_batches) >= 2
    /\ Len(address_batches[Len(address_batches)]) < batch_size

\* C8: the record written for the non-blank address at position n carries the
\* classification if and only if a result exists at n, its confidence is at
\* least 0.7 and its shortForm is not "UNKNOWN"; otherwise it carries the
\* error "Confidence too low or unknown" and no classification.
C8_Threshold ==
    [][ \A b \in Tasks :
          written'[b] = written[b] + 1 =>
            LET n == i[b]
                res == results[b]
                row == rows'[Len(rows')]
                good == /\ n + 1 \in DOMAIN res
                        /\ "confidence" \in DOMAIN res[n + 1]
                        /\ res[n + 1].confidence >= 70
                        /\ ("shortForm" \in DOMAIN res[n + 1]
                               => res[n + 1].shortForm # "UNKNOWN")
            IN  /\ Len(rows') = Len(rows) + 1
                /\ Col(row, "address") = valid_addresses(b)[n + 1]
                /\ IF good
                   THEN /\ Col(row, "error") = ""
                        /\ Col(row, "confidence") = ConfStr(res[n + 1].confidence)
                        /\ Col(row, "shortForm") = Get(res[n + 1], "shortForm", "")
                        /\ Col(row, "longForm") = Get(res[n + 1], "longForm", "")
                   ELSE /\ Col(row, "error") = "Confidence too low or unknown"
                        /\ Col(row, "shortForm") = ""
                        /\ Col(row, "longForm") = ""
                        /\ Col(row, "confidence") = ""
      ]_vars

\* C8 witness: a batch of two addresses got confidence 0.69 for the first,
\* whose record is an error, and 0.7 for the second, whose record is the
\* classification.
C8_Witness ==
    \E b \in Tasks :
        /\ pc[b] = "done"
        /\ Len(valid_addresses(b)) = 2
        /\ Len(results[b]) = 2
        /\ Get(results[b][1], "confidence", 0) = 69
        /\ Get(results[b][2], "confidence", 0) = 70
        /\ Len(rows) = 2
        /\ Col(rows[1], "error") = "Confidence too low or unknown"
        /\ Col(rows[2], "confidence") = "0.7"
        /\ Col(rows[2], "shortForm") = "US"
        /\ Col(rows[2], "error") = ""

\* C9 (as stated): main leaves gather and closes the output only after every
\* batch task has settled by success or by failure; none is still running,
\* unstarted or cancelled at that point.
C9_ReturnsAfterAllSettled ==
    (mainpc \in { "unwinding", "raised", "complete" } \/ outfile = "closed") =>
        \A b \in Tasks : Settled(b)

\* C10 (as stated): a batch size <= 0 is rejected before any work starts: no
\* batch is created, no classifier call is made, the output is not created
\* or overwritten, and the run does not end reporting success.
C10_NonPositiveBatchSizeRejected ==
    batch_size <= 0 =>
        /\ address_batches = <<>>
        /\ \A b \in Tasks : calls[b] = 0
        /\ outfile = "untouched"
        /\ header = <<>>
        /\ mainpc # "complete"

\* Lines 332-344: the status the process ends with. main returns normally on
\* a missing input, on an empty input and after gather, so the interpreter
\* exits with 0; an exception that leaves asyncio.run ends it with 1.
exit_status ==
    CASE mainpc \in { "not_found", "no_addresses", "complete" } -> 0
      [] mainpc \in { "config_error", "raised" } -> 1

\* C11 (as stated): a concurrency of 0 or less is rejected before any work
\* starts: with a usable batch size the output is not opened and no batch
\* task is created, so no task is left waiting on the gate.
C11_InvalidConcurrencyRejected ==
    (concurrency <= 0 /\ batch_size >= 1) =>
        /\ outfile = "untouched"
        /\ Tasks = {}
        /\ mainpc \notin { "gather", "complete" }

\* C12 (as stated): a run that has ended has a non-zero exit status exactly
\* when its input path is missing.
C12_NonZeroIffInputMissing ==
    Ended => (exit_status # 0 <=> ~input_exists)

SlotsHeld == concurrency - sem

\* C14: once the gate exists, the number of slots taken equals the number of
\* batches inside the gated section, whichever way a batch left it (success,
\* blank-only return, failure before a retry, fatal failure); when every
\* batch has ended all N slots are free.
C14_SlotReleasedOnEveryExit ==
    mainpc \in { "gather", "unwinding", "raised", "complete" } =>
        /\ SlotsHeld = Cardinality({ b \in Tasks : HoldsSlot(b) })
        /\ (\A b \in Tasks : pc[b] \in { "done", "failed", "cancelled" }) =>
               sem = concurrency

\* C14 witness: a batch has failed fatally after eleven calls, each of which
\* took a slot, and the only slot is free again.
C14_Witness ==
    /\ concurrency = 1
    /\ \E b \in Tasks : pc[b] = "failed" /\ calls[b] = max_retries + 1
    /\ sem = concurrency

MaxOrderRows == 3

OrderRowValues == { << <<SP>> >>, << <<"x">> >>, << <<SP, "y">> >> }

InitOrder ==
    /\ input_exists = TRUE
    /\ infile \in SeqsUpTo(OrderRowValues, MaxOrderRows)
    /\ batch_size \in 2..MaxBatchSize
    /\ concurrency \in 1..MaxConcurrency
    /\ mainpc = "start"
    /\ addresses = <<>>
    /\ address_batches = <<>>
    /\ sem = 0
    /\ outfile = "untouched"
    /\ header = <<>>
    /\ rows = <<>>
    /\ pc = <<>>
    /\ num_retries = <<>>
    /\ delay = <<>>
    /\ e = <<>>
    /\ results = <<>>
    /\ i = <<>>
    /\ calls = <<>>
    /\ written = <<>>

SpecOrder == InitOrder /\ [][NextGate]_vars

\* C16: the output only grows at its end, and the k-th record a batch writes
\* is the record of its k-th non-blank address, whatever the other batches
\* do in between; so the records of a batch appear in the order of its
\* non-blank addresses.
C16_RecordsInAddressOrder ==
    [][/\ Len(rows') >= Len(rows)
       /\ SubSeq(rows', 1, Len(rows)) = rows
       /\ \A b \in Tasks :
            written'[b] # written[b] =>
                /\ written'[b] = written[b] + 1
                /\ written'[b] <= Len(valid_addresses(b))
                /\ rows' = Append(rows, rows'[Len(rows')])
                /\ Col(rows'[Len(rows')], "address")
                     = valid_addresses(b)[written'[b]]]_vars

\* C16 witness: a batch of two different non-blank addresses has written
\* both records, and a record of another batch lies between them.
C16_Witness ==
    /\ Len(rows) = 3
    /\ \E b \in Tasks :
          /\ pc[b] = "done"
          /\ Len(valid_addresses(b)) = 2
          /\ valid_addresses(b)[1] # valid_addresses(b)[2]
          /\ Col(rows[1], "address") = valid_addresses(b)[1]
          /\ Col(rows[3], "address") = valid_addresses(b)[2]
    /\ \E c \in Tasks : Len(valid_addresses(c)) = 1 /\ written[c] = 1

\* the result lists that agree with res at the 0-based position n: both have
\* no item there, or both have the same item there
SameAt(res, n, len) ==
    { r \in SeqsUpTo(Items, len) :
        /\ (n < Len(r)) <=> (n < Len(res))
        /\ n < Len(res) => r[n + 1] = res[n + 1] }

\* C17: the record written for the non-blank address at position n (counted
\* after the blank addresses were dropped) is the record of that address and
\* is fixed by the result at position n alone: any other list of results with
\* the same item, or the same lack of an item, at n gives the same record.
C17_RecordDependsOnOwnResultOnly ==
    [][\A b \in Tasks :
          written'[b] = written[b] + 1 =>
            LET n == i[b]
                valid == valid_addresses(b)
                row == rows'[Len(rows')]
            IN  /\ n < Len(valid)
                /\ Col(row, "address") = valid[n + 1]
                /\ \A r \in SameAt(results[b], n, Len(valid)) :
                      row = csv_row(result_line(valid[n + 1], r, n))
                /\ (n < Len(results[b]) /\ Col(row, "error") = "") =>
                      Col(row, "confidence")
                          = ConfStr(Get(results[b][n + 1], "confidence", 0))
      ]_vars

\* C17 witness: the response for a batch of two non-blank addresses held one
\* result only; the first address has its classification and the second,
\* for which the result is missing, has the error record.
C17_Witness ==
    \E b \in Tasks :
        /\ pc[b] = "done"
        /\ Len(valid_addresses(b)) = 2
        /\ Len(results[b]) = 1
        /\ Len(rows) = 2
        /\ Col(rows[1], "shortForm") = "US"
        /\ Col(rows[1], "confidence") = "1.0"
        /\ Col(rows[1], "error") = ""
        /\ Col(rows[2], "error") = LowConfidenceError
        /\ Col(rows[2], "shortForm") = ""

\* A run of one batch of one address in which random.random() takes every
\* value j / JitterDen of [0, 1) at every retry.
Jitters == 0..(JitterDen - 1)

InitBackoff ==
    /\ input_exists = TRUE
    /\ infile = << << <<"x">> >> >>
    /\ batch_size = 1
    /\ concurrency = 1
    /\ mainpc = "start"
    /\ addresses = <<>>
    /\ address_batches = <<>>
    /\ sem = 0
    /\ outfile = "untouched"
    /\ header = <<>>
    /\ rows = <<>>
    /\ pc = <<>>
    /\ num_retries = <<>>
    /\ delay = <<>>
    /\ e = <<>>
    /\ results = <<>>
    /\ i = <<>>
    /\ calls = <<>>
    /\ written = <<>>

NextBackoff ==
    \/ MainDispatch
    \/ MainGatherReturns
    \/ MainGatherRaises
    \/ MainAborts
    \/ \E b \in Tasks : AcquireCall(b)
    \/ \E b \in Tasks : \E resp \in Responses(Len(valid_addresses(b))) :
          ClassifierReturns(b, resp)
    \/ \E b \in Tasks : \E kind \in FailureKinds : \E j \in Jitters :
          ClassifierRaises(b, kind, j)
    \/ \E b \in Tasks : WriteRow(b)

SpecBackoff == InitBackoff /\ [][NextBackoff]_vars

\* C18: the delay of a batch is 1 until its first retry; it changes only
\* when a retry is decided, and then to at least 2 times and less than 4
\* times its value, so it is never reset and grows strictly; the delay slept
\* before the k-th retry is at least 2^k and less than 4^k.
C18_BackoffGrowth ==
    /\ [](\A b \in Tasks :
            /\ num_retries[b] = 0 => delay[b] = initial_delay
            /\ pc[b] = "sleeping" =>
                  /\ delay[b] >= 2 ^ num_retries[b]
                  /\ delay[b] < 4 ^ num_retries[b])
    /\ [][\A b \in Tasks :
            /\ (pc[b] = "calling" /\ pc'[b] = "sleeping") =>
                  /\ delay'[b] >= 2 * delay[b]
                  /\ delay'[b] < 4 * delay[b]
                  /\ delay'[b] > delay[b]
            /\ ~(pc[b] = "calling" /\ pc'[b] = "sleeping") =>
                  delay'[b] = delay[b]]_vars

\* C18 witness: a batch sleeps before its tenth retry with a delay that lies
\* strictly between 2^10 and 3^10, so the jitter was drawn both ways.
C18_Witness ==
    \E b \in Tasks :
        /\ pc[b] = "sleeping"
        /\ num_retries[b] = max_retries
        /\ delay[b] > 2 ^ max_retries
        /\ delay[b] < 3 ^ max_retries

\* C19: a batch that sleeps between two attempts holds no slot: the failure
\* that sends it to sleep frees its slot, the next attempt takes a free slot
\* again, and while it sleeps all N slots are free or held by other batches.
C19_SleepingHoldsNoSlot ==
    /\ [](\A b \in Tasks :
            pc[b] = "sleeping" =>
                sem + Cardinality({ c \in Tasks \ { b } : HoldsSlot(c) })
                    = concurrency)
    /\ [][\A b \in Tasks :
            /\ (pc[b] = "calling" /\ pc'[b] = "sleeping") => sem' = sem + 1
            /\ (pc[b] = "sleeping" /\ pc'[b] = "calling") =>
                  sem >= 1 /\ sem' = sem - 1]_vars

\* C19 witness: one batch sleeps after a failed call while N other batches
\* have an outstanding call and no slot is free.
C19_Witness ==
    /\ \E b \in Tasks : pc[b] = "sleeping" /\ num_retries[b] >= 1
    /\ Cardinality(InFlight) = concurrency
    /\ sem = 0

\* C20: the output changes only by a batch that is writing after a returned
\* call; a batch that has written a record has made more calls than it had
\* failures, so one of its calls returned; and a batch that ended by
\* exhausting its retries, all of its calls having failed, has written no
\* record of any kind (in a run of one batch the output has no record).
C20_NoRecordWithoutReturnedCall ==
    /\ [](\A b \in Tasks :
            /\ written[b] > 0 =>
                  /\ calls[b] > num_retries[b]
                  /\ pc[b] \in { "writing", "done" }
            /\ pc[b] = "failed" =>
                  /\ calls[b] = num_retries[b]
                  /\ written[b] = 0
                  /\ (Cardinality(Tasks) = 1 => rows = <<>>))
    /\ [][rows' # rows =>
            \E b \in Tasks :
                /\ pc[b] = "writing"
                /\ written'[b] = written[b] + 1
                /\ Len(rows') = Len(rows) + 1]_vars

\* C20 witness: a batch with a non-blank address has failed fatally after
\* eleven failed calls of different kinds and the output holds no record.
C20_Witness ==
    \E b \in Tasks :
        /\ pc[b] = "failed"
        /\ valid_addresses(b) # <<>>
        /\ calls[b] = max_retries + 1
        /\ e[b] \in OtherFailureKinds
        /\ written[b] = 0
        /\ rows = <<>>
        /\ header = fieldnames

====
